---- MODULE Spec2Model ----
(***************************************************************************)
(* Verification model of the runtime-interface marshaling layer            *)
(* (core/runtime-interface/src/impls.rs).                                  *)
(*                                                                         *)
(* Machine words are modelled at full width as tuples of bytes, least      *)
(* significant byte first: a u32 is a 4-tuple, a u64 an 8-tuple.  The      *)
(* endianness of the machine the code was built for is the variable        *)
(* bigEndian, chosen in Init and never changed.                            *)
(***************************************************************************)
EXTENDS Integers, Sequences, FiniteSets, TLC

VARIABLES
    bigEndian,  \* TRUE when the build target is big-endian
    pc,         \* position of the pure-function harnesses
    input,      \* the native input of a pure-function harness
    wire,       \* the wire value it produced
    output,     \* the native value reconstructed from the wire value
    mem,        \* guest linear memory: address -> byte
    blocks,     \* blocks handed out by the guest allocator, never freed here
    ty,         \* the Rust type whose impl the host-side calls go through
    calls,      \* number of host-side conversions performed so far
    last,       \* observation of the most recent host-side conversion
    prev,       \* observation of the conversion before it
    NextEnumSet, \* indices module storage: the next free enumeration set
    EnumSet,    \* indices module storage: set index -> account ids
    events,     \* events the indices module has deposited
    account     \* observation of the most recent on_new_account call

vars == <<bigEndian, pc, input, wire, output, mem, blocks, ty, calls, last, prev,
          NextEnumSet, EnumSet, events, account>>

----------------------------------------------------------------------------
(* Bytes and words *)

RECURSIVE BitOr(_, _)
BitOr(a, b) ==
    IF a = 0 THEN b
    ELSE IF b = 0 THEN a
    ELSE (IF a % 2 = 1 \/ b % 2 = 1 THEN 1 ELSE 0) + 2 * BitOr(a \div 2, b \div 2)

RECURSIVE BitAnd(_, _)
BitAnd(a, b) ==
    IF a = 0 \/ b = 0 THEN 0
    ELSE (IF a % 2 = 1 /\ b % 2 = 1 THEN 1 ELSE 0) + 2 * BitAnd(a \div 2, b \div 2)

WordOr(a, b) == [i \in 1..Len(a) |-> BitOr(a[i], b[i])]

WordAnd(a, b) == [i \in 1..Len(a) |-> BitAnd(a[i], b[i])]

\* `x as u64` / u64::from(x) for a u32 x: zero extension.
u64_from_u32(x) == x \o <<0, 0, 0, 0>>

\* `x as u32` for a u64 x: truncation to the low 32 bits.
u64_as_u32(x) == SubSeq(x, 1, 4)

\* `x << 32` on a u64: the low four bytes move up, the high four fall off.
Shl32(x) == <<0, 0, 0, 0>> \o SubSeq(x, 1, 4)

\* `x >> 32` on a u64 (logical shift).
Shr32(x) == SubSeq(x, 5, 8) \o <<0, 0, 0, 0>>

\* `!0u32 as u64`
LowMask == <<255, 255, 255, 255, 0, 0, 0, 0>>

swap_bytes(x) == [i \in 1..Len(x) |-> x[Len(x) + 1 - i]]

\* Integer::to_le / Integer::from_le: the identity on a little-endian
\* target, a byte swap on a big-endian one.
to_le(x) == IF bigEndian THEN swap_bytes(x) ELSE x

from_le(x) == IF bigEndian THEN swap_bytes(x) ELSE x

\* The bytes a native word occupies in memory, lowest address first.
MemoryBytes(x) == IF bigEndian THEN swap_bytes(x) ELSE x

----------------------------------------------------------------------------
(* Handle codec *)

pointer_and_len_to_u64_noswap(ptr, len) ==
    WordOr(u64_from_u32(len), Shl32(u64_from_u32(ptr)))

pointer_and_len_to_u64_swapped(ptr, len) ==
    to_le(WordOr(u64_from_u32(ptr), Shl32(u64_from_u32(len))))

pointer_and_len_to_u64(ptr, len) ==
    to_le(WordOr(u64_from_u32(len), Shl32(u64_from_u32(ptr))))

pointer_and_len_from_u64(val) ==
    LET v   == from_le(val)
        len == u64_as_u32(WordAnd(v, LowMask))
        ptr == u64_as_u32(Shr32(v))
    IN  <<ptr, len>>

----------------------------------------------------------------------------
(* Primitive integers: impl_traits_for_primitives *)

PrimTypes == {"u8", "u16", "u32", "u64", "i8", "i16", "i32", "i64"}

\* Size of a primitive integer type in bytes.
SizeOf(t) ==
    CASE t \in {"u8", "i8"}   -> 1
      [] t \in {"u16", "i16"} -> 2
      [] t \in {"u32", "i32"} -> 4
      [] t \in {"u64", "i64"} -> 8

IsSigned(t) == t \in {"i8", "i16", "i32", "i64"}

\* The ($rty, $fty) table the macro is invoked with: RIType::FFIType.
FFIType(rty) ==
    CASE rty = "u8"  -> "u8"
      [] rty = "u16" -> "u16"
      [] rty = "u32" -> "u32"
      [] rty = "u64" -> "u64"
      [] rty = "i8"  -> "i8"
      [] rty = "i16" -> "i16"
      [] rty = "i32" -> "i32"
      [] rty = "i64" -> "i64"

\* `x as to` for an integer x of type from: truncation when narrowing, sign
\* or zero extension (by the source type's signedness) when widening.
as_cast(x, from, to) ==
    IF SizeOf(to) <= SizeOf(from)
    THEN SubSeq(x, 1, SizeOf(to))
    ELSE x \o [i \in 1..(SizeOf(to) - SizeOf(from)) |->
                 IF IsSigned(from) /\ x[Len(x)] >= 128 THEN 255 ELSE 0]

prim_into_ffi_value(rty, self) == to_le(as_cast(self, rty, FFIType(rty)))

prim_from_ffi_value_no_from_le(rty, arg) == as_cast(arg, FFIType(rty), rty)

prim_from_ffi_value(rty, arg) == as_cast(from_le(arg), FFIType(rty), rty)

----------------------------------------------------------------------------
(* Small numbers as machine words *)

\* `n as u32` for a length or an address n below 2^31.
U32(n) == <<n % 256, (n \div 256) % 256, (n \div 65536) % 256, (n \div 16777216) % 256>>

\* The number a u32 word stands for (the model's words stay below 2^31).
U32Value(w) == w[1] + 256 * w[2] + 65536 * w[3] + 16777216 * w[4]

----------------------------------------------------------------------------
(* The memory-access context: FunctionContext of the guest sandbox.        *)
(* allocate, write and read are each fallible; env carries the outcome     *)
(* the sandbox gives to the one allocation and the one memory access a     *)
(* conversion can make.                                                    *)

MemSize == 72

Addr == 0..(MemSize - 1)

\* Bytes the allocator keeps for itself in front of every block it hands out.
AllocPad == 1

\* The first address past a block; an empty block still takes an address.
BlockEnd(b) == b.addr + (IF b.len = 0 THEN 1 ELSE b.len)

HeapTop(blks) ==
    IF blks = {} THEN 0
    ELSE CHOOSE e \in {BlockEnd(b) : b \in blks} :
            \A f \in {BlockEnd(b) : b \in blks} : f <= e

\* What the sandbox may answer to a call: it goes through or it fails.
Outcomes == {"ok", "fail"}

Envs == [alloc : Outcomes, io : Outcomes]

\* A bump allocator over the bounded memory: a block goes after the last
\* one, and allocation fails when the sandbox says so or the memory is full.
allocate_memory(blks, len, outcome) ==
    LET at   == HeapTop(blks) + AllocPad
        good == outcome = "ok" /\ at < MemSize /\ at + len <= MemSize
    IN  IF ~good
        THEN [ok |-> FALSE, ptr |-> 0, blocks |-> blks,
              log |-> [call |-> "allocate", addr |-> 0, len |-> len, data |-> <<>>, ok |-> FALSE]]
        ELSE [ok |-> TRUE, ptr |-> at,
              blocks |-> blks \cup {[addr |-> at, len |-> len]},
              log |-> [call |-> "allocate", addr |-> at, len |-> len, data |-> <<>>, ok |-> TRUE]]

write_memory(m, addr, data, outcome) ==
    LET good == outcome = "ok" /\ addr + Len(data) <= MemSize
    IN  [ok  |-> good,
         mem |-> IF good
                 THEN [a \in Addr |-> IF a >= addr /\ a < addr + Len(data)
                                      THEN data[a - addr + 1] ELSE m[a]]
                 ELSE m,
         log |-> [call |-> "write", addr |-> addr, len |-> Len(data), data |-> data, ok |-> good]]

read_memory(m, addr, len, outcome) ==
    LET good == outcome = "ok" /\ addr + len <= MemSize
        data == IF good THEN [i \in 1..len |-> m[addr + i - 1]] ELSE <<>>
    IN  [ok |-> good, data |-> data,
         log |-> [call |-> "read", addr |-> addr, len |-> len, data |-> data, ok |-> good]]

----------------------------------------------------------------------------
(* The external codec for Vec<u16>: a compact length prefix, then each     *)
(* element as two little-endian bytes.                                     *)

RECURSIVE Flatten16(_)
Flatten16(v) ==
    IF v = <<>> THEN <<>>
    ELSE <<Head(v) % 256, Head(v) \div 256>> \o Flatten16(Tail(v))

CompactLen(n) ==
    IF n < 64 THEN <<4 * n>>
    ELSE <<(4 * n + 1) % 256, (4 * n + 1) \div 256>>

Encode(v) == CompactLen(Len(v)) \o Flatten16(v)

\* Compact<u32>::decode: [ok, n, used].
DecodeCompact(b) ==
    LET bad == [ok |-> FALSE, n |-> 0, used |-> 0]
    IN  IF Len(b) = 0 THEN bad
        ELSE CASE b[1] % 4 = 0 -> [ok |-> TRUE, n |-> b[1] \div 4, used |-> 1]
               [] b[1] % 4 = 1 ->
                    IF Len(b) < 2 THEN bad
                    ELSE [ok |-> TRUE, n |-> (b[1] + 256 * b[2]) \div 4, used |-> 2]
               [] b[1] % 4 = 2 ->
                    IF Len(b) < 4 THEN bad
                    ELSE [ok |-> TRUE, used |-> 4,
                          n |-> (b[1] \div 4) + 64 * b[2] + 16384 * b[3] + 4194304 * b[4]]
               [] OTHER ->
                    IF b[1] \div 4 # 0 \/ Len(b) < 5 THEN bad
                    ELSE [ok |-> TRUE, used |-> 5,
                          n |-> IF b[5] >= 128 THEN 2147483647
                                ELSE b[2] + 256 * b[3] + 65536 * b[4] + 16777216 * b[5]]

\* Vec::<u16>::decode: fails when the input ends before the announced
\* elements do; bytes after the last element are left unread.
Decode(b) ==
    LET c == DecodeCompact(b)
    IN  IF ~c.ok \/ c.n > (Len(b) - c.used) \div 2
        THEN [ok |-> FALSE, val |-> <<>>]
        ELSE [ok |-> TRUE,
              val |-> [i \in 1..c.n |-> b[c.used + 2 * i - 1] + 256 * b[c.used + 2 * i]]]

CodecLog(what, okay) ==
    [call |-> what, addr |-> 0, len |-> 0, data |-> <<>>, ok |-> okay]

----------------------------------------------------------------------------
(* Host-side conversions.  Each takes the context ctx = [mem, blocks] and    *)
(* the outcomes env of its context calls, and returns its result, the     *)
(* calls it made in order, and the context it leaves.                      *)

Ok(v) == [kind |-> "Ok", val |-> v]

Err(msg) == [kind |-> "Err", val |-> msg]

Panic(msg) == [kind |-> "Panic", val |-> msg]

Done(res, log, m, blks) == [res |-> res, log |-> log, mem |-> m, blocks |-> blks]

vec_into_ffi_value_always_encode(T, self, ctx, env) ==
    LET vec  == Encode(self)
        pre  == <<CodecLog("encode", TRUE)>>
        a    == allocate_memory(ctx.blocks, Len(vec), env.alloc)
        w    == write_memory(ctx.mem, a.ptr, vec, env.io)
    IN  IF ~a.ok
        THEN Done(Err("allocate"), pre \o <<a.log>>, ctx.mem, ctx.blocks)
        ELSE IF ~w.ok
        THEN Done(Err("write"), pre \o <<a.log, w.log>>, ctx.mem, a.blocks)
        ELSE Done(Ok(pointer_and_len_to_u64(U32(a.ptr), U32(Len(vec)))),
                  pre \o <<a.log, w.log>>, w.mem, a.blocks)

\* impl IntoFFIValue for Vec<T>
vec_into_ffi_value(T, self, ctx, env) ==
    LET vec  == IF T = "u8" THEN self ELSE Encode(self)
        pre  == IF T = "u8" THEN <<>> ELSE <<CodecLog("encode", TRUE)>>
        a    == allocate_memory(ctx.blocks, Len(vec), env.alloc)
        w    == write_memory(ctx.mem, a.ptr, vec, env.io)
    IN  IF ~a.ok
        THEN Done(Err("allocate"), pre \o <<a.log>>, ctx.mem, ctx.blocks)
        ELSE IF ~w.ok
        THEN Done(Err("write"), pre \o <<a.log, w.log>>, ctx.mem, a.blocks)
        ELSE Done(Ok(pointer_and_len_to_u64(U32(a.ptr), U32(Len(vec)))),
                  pre \o <<a.log, w.log>>, w.mem, a.blocks)

slice_from_ffi_value_always_transmute(T, arg, ctx, env) ==
    LET pl  == pointer_and_len_from_u64(arg)
        r   == read_memory(ctx.mem, U32Value(pl[1]), U32Value(pl[2]), env.io)
    IN  IF ~r.ok
        THEN Done(Err("read"), <<r.log>>, ctx.mem, ctx.blocks)
        ELSE Done(Ok(r.data), <<r.log>>, ctx.mem, ctx.blocks)

slice_from_ffi_value_decode_err(T, arg, ctx, env) ==
    LET pl  == pointer_and_len_from_u64(arg)
        r   == read_memory(ctx.mem, U32Value(pl[1]), U32Value(pl[2]), env.io)
        d   == Decode(r.data)
    IN  IF ~r.ok
        THEN Done(Err("read"), <<r.log>>, ctx.mem, ctx.blocks)
        ELSE IF T = "u8"
        THEN Done(Ok(r.data), <<r.log>>, ctx.mem, ctx.blocks)
        ELSE IF d.ok
        THEN Done(Ok(d.val), <<r.log, CodecLog("decode", TRUE)>>, ctx.mem, ctx.blocks)
        ELSE Done(Err("decode"), <<r.log, CodecLog("decode", FALSE)>>, ctx.mem, ctx.blocks)

\* impl FromFFIValue for [T]
slice_from_ffi_value(T, arg, ctx, env) ==
    LET pl  == pointer_and_len_from_u64(arg)
        r   == read_memory(ctx.mem, U32Value(pl[1]), U32Value(pl[2]), env.io)
        d   == Decode(r.data)
    IN  IF ~r.ok
        THEN Done(Err("read"), <<r.log>>, ctx.mem, ctx.blocks)
        ELSE IF T = "u8"
        THEN Done(Ok(r.data), <<r.log>>, ctx.mem, ctx.blocks)
        ELSE IF d.ok
        THEN Done(Ok(d.val), <<r.log, CodecLog("decode", TRUE)>>, ctx.mem, ctx.blocks)
        ELSE Done(Panic("Wasm to host values are encoded correctly; qed"),
                  <<r.log, CodecLog("decode", FALSE)>>, ctx.mem, ctx.blocks)

\* impl FromFFIValue for Vec<T>
vec_from_ffi_value(T, arg, ctx, env) == slice_from_ffi_value(T, arg, ctx, env)

slice_into_preallocated_ffi_value_off_by_one(self_instance, allocated, ctx, env) ==
    LET pl == pointer_and_len_from_u64(allocated)
        w  == write_memory(ctx.mem, U32Value(pl[1]), self_instance, env.io)
    IN  IF U32Value(pl[2]) <= Len(self_instance)
        THEN Done(Err("Preallocated buffer is not big enough"), <<>>, ctx.mem, ctx.blocks)
        ELSE IF ~w.ok
        THEN Done(Err("write"), <<w.log>>, ctx.mem, ctx.blocks)
        ELSE Done(Ok(<<>>), <<w.log>>, w.mem, ctx.blocks)

\* impl IntoPreallocatedFFIValue for [u8]
slice_into_preallocated_ffi_value(self_instance, allocated, ctx, env) ==
    LET pl == pointer_and_len_from_u64(allocated)
        w  == write_memory(ctx.mem, U32Value(pl[1]), self_instance, env.io)
    IN  IF U32Value(pl[2]) < Len(self_instance)
        THEN Done(Err("Preallocated buffer is not big enough"), <<>>, ctx.mem, ctx.blocks)
        ELSE IF ~w.ok
        THEN Done(Err("write"), <<w.log>>, ctx.mem, ctx.blocks)
        ELSE Done(Ok(<<>>), <<w.log>>, w.mem, ctx.blocks)

\* The sizes impl_traits_for_arrays is invoked with.
ArraySizes == 1..64

array_from_ffi_value_short(n, arg, ctx, env) ==
    LET r == read_memory(ctx.mem, U32Value(arg), n - 1, env.io)
    IN  IF ~r.ok
        THEN Done(Err("read"), <<r.log>>, ctx.mem, ctx.blocks)
        ELSE Done(Ok([i \in 1..n |-> IF i < n THEN r.data[i] ELSE 0]),
                  <<r.log>>, ctx.mem, ctx.blocks)

\* impl FromFFIValue for [u8; N]
array_from_ffi_value(n, arg, ctx, env) ==
    LET r == read_memory(ctx.mem, U32Value(arg), n, env.io)
    IN  IF ~r.ok
        THEN Done(Err("read"), <<r.log>>, ctx.mem, ctx.blocks)
        ELSE Done(Ok([i \in 1..n |-> r.data[i]]), <<r.log>>, ctx.mem, ctx.blocks)

array_into_ffi_value_unchecked_write(n, self, ctx, env) ==
    LET a == allocate_memory(ctx.blocks, n, env.alloc)
        w == write_memory(ctx.mem, a.ptr, self, env.io)
    IN  IF ~a.ok
        THEN Done(Err("allocate"), <<a.log>>, ctx.mem, ctx.blocks)
        ELSE Done(Ok(U32(a.ptr)), <<a.log, w.log>>, w.mem, a.blocks)

\* impl IntoFFIValue for [u8; N]
array_into_ffi_value(n, self, ctx, env) ==
    LET a == allocate_memory(ctx.blocks, n, env.alloc)
        w == write_memory(ctx.mem, a.ptr, self, env.io)
    IN  IF ~a.ok
        THEN Done(Err("allocate"), <<a.log>>, ctx.mem, ctx.blocks)
        ELSE IF ~w.ok
        THEN Done(Err("write"), <<a.log, w.log>>, ctx.mem, a.blocks)
        ELSE Done(Ok(U32(a.ptr)), <<a.log, w.log>>, w.mem, a.blocks)

\* impl IntoPreallocatedFFIValue for [u8; N]
array_into_preallocated_ffi_value(n, self_instance, allocated, ctx, env) ==
    LET w == write_memory(ctx.mem, U32Value(allocated), self_instance, env.io)
    IN  IF ~w.ok
        THEN Done(Err("write"), <<w.log>>, ctx.mem, ctx.blocks)
        ELSE Done(Ok(<<>>), <<w.log>>, w.mem, ctx.blocks)

indicesVars == <<NextEnumSet, EnumSet, events, account>>

NoAccount ==
    [n |-> 0, who |-> 0, hint |-> [some |-> FALSE, val |-> 0], dead |-> "none",
     next |-> 0, sets |-> <<>>, events |-> 0, loops |-> 0]

\* The indices module where it plays no part: empty storage, no call made.
IndicesIdle ==
    /\ NextEnumSet = 0
    /\ EnumSet = <<>>
    /\ events = <<>>
    /\ account = NoAccount

NoCall ==
    [op |-> "none", self |-> <<>>, arg |-> <<>>, res |-> Ok(<<>>), log |-> <<>>,
     memPre |-> <<>>, blocksPre |-> {}]

NoPrev == [op |-> "none", self |-> <<>>, res |-> Ok(<<>>), log |-> <<>>]

\* The host-side state of the pure-function harnesses: nothing has run.
HostIdle ==
    /\ mem = [a \in Addr |-> 0]
    /\ blocks = {}
    /\ ty = [kind |-> "none", elem |-> "none", n |-> 0]
    /\ calls = 0
    /\ last = NoCall
    /\ prev = NoPrev
    /\ IndicesIdle

hostVars == <<mem, blocks, ty, calls, last, prev>>

----------------------------------------------------------------------------
(* The host servicing calls: every behaviour goes through the impls of one *)
(* Rust type, Vec<u8>, Vec<u16> or [u8; N], and performs up to MaxCalls    *)
(* conversions on one sandbox memory.                                      *)

MaxCalls == 2

MaxLen == 2

HostTypes ==
    {[kind |-> "vec", elem |-> e, n |-> 0] : e \in {"u8", "u16"}}
    \cup {[kind |-> "array", elem |-> "u8", n |-> k] : k \in ArraySizes}

\* Input sequences: of every length up to MaxLen, one that counts up and one
\* of the largest element.
VecValues(e) ==
    IF e = "u8"
    THEN UNION {{[i \in 1..k |-> i], [i \in 1..k |-> 255]} : k \in 0..MaxLen}
    ELSE UNION {{[i \in 1..k |-> 257 * i + 1], [i \in 1..k |-> 65535]} : k \in 0..MaxLen}

ArrayValues(n) == {[i \in 1..n |-> i], [i \in 1..n |-> 255]}

\* Handles a caller may pass: a block in whole, cut short by one byte or
\* empty, and one that lies outside the memory.
VecArgs ==
    UNION {{pointer_and_len_to_u64(U32(b.addr), U32(l)) :
                l \in {b.len, b.len - 1, 0} \cap Nat} : b \in blocks}
    \cup {pointer_and_len_to_u64(U32(MemSize), U32(1))}

\* Destinations a caller may preallocate: a block in whole or declared one
\* byte shorter, and one that lies outside the memory.
VecDests ==
    UNION {{pointer_and_len_to_u64(U32(b.addr), U32(l)) :
                l \in {b.len, b.len - 1} \cap Nat} : b \in blocks}
    \cup {pointer_and_len_to_u64(U32(MemSize), U32(MaxLen))}

ArrayArgs == {U32(b.addr) : b \in blocks} \cup {U32(MemSize)}

Init ==
    /\ bigEndian \in BOOLEAN
    /\ pc = "host"
    /\ input = <<>>
    /\ wire = <<>>
    /\ output = <<>>
    /\ mem = [a \in Addr |-> 0]
    /\ blocks = {}
    /\ ty \in HostTypes
    /\ calls = 0
    /\ last = NoCall
    /\ prev = NoPrev
    /\ IndicesIdle

Ctx == [mem |-> mem, blocks |-> blocks]

\* A conversion op(self or arg) has returned r.
Complete(op, self, arg, r) ==
    /\ calls < MaxCalls
    /\ mem' = r.mem
    /\ blocks' = r.blocks
    /\ calls' = calls + 1
    /\ prev' = [op |-> last.op, self |-> last.self, res |-> last.res, log |-> last.log]
    /\ last' = [op |-> op, self |-> self, arg |-> arg, res |-> r.res, log |-> r.log,
                memPre |-> mem, blocksPre |-> blocks]
    /\ UNCHANGED <<bigEndian, pc, input, wire, output, ty, indicesVars>>

VecIntoFFIValue ==
    /\ ty.kind = "vec"
    /\ \E self \in VecValues(ty.elem), env \in Envs :
          Complete("vec_into", self, <<>>, vec_into_ffi_value(ty.elem, self, Ctx, env))

VecFromFFIValue ==
    /\ ty.kind = "vec"
    /\ \E arg \in VecArgs, env \in Envs :
          Complete("vec_from", <<>>, arg, vec_from_ffi_value(ty.elem, arg, Ctx, env))

SliceIntoPreallocatedFFIValue ==
    /\ ty.kind = "vec" /\ ty.elem = "u8"
    /\ \E self \in VecValues("u8"), allocated \in VecDests, env \in Envs :
          Complete("slice_prealloc", self, allocated,
                   slice_into_preallocated_ffi_value(self, allocated, Ctx, env))

ArrayIntoFFIValue ==
    /\ ty.kind = "array"
    /\ \E self \in ArrayValues(ty.n), env \in Envs :
          Complete("array_into", self, <<>>, array_into_ffi_value(ty.n, self, Ctx, env))

ArrayFromFFIValue ==
    /\ ty.kind = "array"
    /\ \E arg \in ArrayArgs, env \in Envs :
          Complete("array_from", <<>>, arg, array_from_ffi_value(ty.n, arg, Ctx, env))

ArrayIntoPreallocatedFFIValue ==
    /\ ty.kind = "array"
    /\ \E self \in ArrayValues(ty.n), allocated \in ArrayArgs, env \in Envs :
          Complete("array_prealloc", self, allocated,
                   array_into_preallocated_ffi_value(ty.n, self, allocated, Ctx, env))

Next ==
    \/ VecIntoFFIValue
    \/ VecFromFFIValue
    \/ SliceIntoPreallocatedFFIValue
    \/ ArrayIntoFFIValue
    \/ ArrayFromFFIValue
    \/ ArrayIntoPreallocatedFFIValue

Spec == Init /\ [][Next]_vars

----------------------------------------------------------------------------
(* Properties of the host-side conversions *)

MemSlice(m, a, n) == [i \in 1..n |-> m[a + i - 1]]

AllocEntry(a, n) ==
    [call |-> "allocate", addr |-> a, len |-> n, data |-> <<>>, ok |-> TRUE]

WriteEntry(a, d) ==
    [call |-> "write", addr |-> a, len |-> Len(d), data |-> d, ok |-> TRUE]

ReadEntry(a, d) ==
    [call |-> "read", addr |-> a, len |-> Len(d), data |-> d, ok |-> TRUE]

DecodeEntry == [call |-> "decode", addr |-> 0, len |-> 0, data |-> <<>>, ok |-> TRUE]

EncodeEntry == [call |-> "encode", addr |-> 0, len |-> 0, data |-> <<>>, ok |-> TRUE]

ContextCalls == {"allocate", "write", "read"}

AllOk(log) == \A i \in 1..Len(log) : log[i].ok

IsVec(e) == ty.kind = "vec" /\ ty.elem = e

\* The block the last call allocated, when it allocated exactly one.
NewBlocks == blocks \ last.blocksPre

\* The last call read back the handle the call before it returned.
ReadsBack(into, from) ==
    /\ prev.op = into
    /\ prev.res.kind = "Ok"
    /\ last.op = from
    /\ last.arg = prev.res.val

\* C3: host-side into_ffi_value of a byte vector of length n, when allocate
\* and write succeed, allocates exactly n bytes at some address A, writes the
\* vector's bytes unchanged at A without invoking the codec and returns
\* pack(A, n); from_ffi_value on that handle reads n bytes at A and returns
\* a sequence equal to the original, again without invoking the codec.
ByteVecZeroCopy ==
    /\ (IsVec("u8") /\ last.op = "vec_into") =>
          /\ \A i \in 1..Len(last.log) : last.log[i].call \in ContextCalls
          /\ (Len(last.log) = 2 /\ AllOk(last.log)) <=> last.res.kind = "Ok"
          /\ last.res.kind = "Ok" =>
                \E A \in Addr :
                    /\ last.log = <<AllocEntry(A, Len(last.self)), WriteEntry(A, last.self)>>
                    /\ NewBlocks = {[addr |-> A, len |-> Len(last.self)]}
                    /\ MemSlice(mem, A, Len(last.self)) = last.self
                    /\ last.res.val = pointer_and_len_to_u64(U32(A), U32(Len(last.self)))
    /\ (IsVec("u8") /\ ReadsBack("vec_into", "vec_from")) =>
          /\ Len(last.log) = 1
          /\ last.log[1].call = "read"
          /\ last.log[1].addr = prev.log[1].addr
          /\ last.log[1].len = Len(prev.self)
          /\ last.log[1].ok <=> last.res.kind = "Ok"
          /\ last.res.kind = "Ok" => last.res.val = prev.self

\* A non-empty byte vector went into guest memory and came back equal.
ByteVecZeroCopyWitness ==
    /\ IsVec("u8")
    /\ ReadsBack("vec_into", "vec_from")
    /\ prev.self = <<255, 255>>
    /\ last.res.kind = "Ok"
    /\ last.res.val = <<255, 255>>

\* The destination a preallocated write was given, as (address, length).
DestOf(allocated) ==
    LET pl == pointer_and_len_from_u64(allocated)
    IN  [ptr |-> U32Value(pl[1]), len |-> U32Value(pl[2])]

\* C4: host-side into_preallocated_ffi_value for a byte sequence: a
\* destination length smaller than the value's length gives a capacity error
\* and no write to guest memory at all; a destination length equal to or
\* greater than the value's length gives one write of the value's bytes at
\* the destination address, after which the first value.len() bytes of the
\* destination equal the value and every other byte of memory is unchanged.
PreallocatedCapacity ==
    last.op = "slice_prealloc" =>
        LET d == DestOf(last.arg)
            n == Len(last.self)
        IN  /\ d.len < n =>
                /\ last.res.kind = "Err"
                /\ last.res.val = "Preallocated buffer is not big enough"
                /\ last.log = <<>>
                /\ mem = last.memPre
            /\ d.len >= n =>
                /\ Len(last.log) = 1
                /\ last.log[1].call = "write"
                /\ last.log[1].addr = d.ptr
                /\ last.log[1].data = last.self
                /\ last.log[1].ok <=> last.res.kind = "Ok"
                /\ last.res.kind = "Ok" =>
                      /\ MemSlice(mem, d.ptr, n) = last.self
                      /\ \A a \in Addr : (a < d.ptr \/ a >= d.ptr + n) => mem[a] = last.memPre[a]
                /\ last.res.kind = "Err" => last.res.val = "write" /\ mem = last.memPre

\* A one-byte value was written into a two-byte destination: the first byte
\* changed, the second kept what it held.
PreallocatedCapacityWitness ==
    /\ last.op = "slice_prealloc"
    /\ last.res.kind = "Ok"
    /\ Len(last.self) = 1
    /\ DestOf(last.arg).len = 2
    /\ mem[DestOf(last.arg).ptr] # last.memPre[DestOf(last.arg).ptr]
    /\ mem[DestOf(last.arg).ptr + 1] = last.memPre[DestOf(last.arg).ptr + 1]
    /\ mem[DestOf(last.arg).ptr + 1] # 0

\* A destination one byte too short was refused.
PreallocatedTooSmallReached ==
    /\ last.op = "slice_prealloc"
    /\ DestOf(last.arg).len + 1 = Len(last.self)
    /\ last.res.kind = "Err"

FailedAt(log, i) == log[i].call \in ContextCalls /\ ~log[i].ok

\* C5: every host-side conversion returns an error to its caller whenever an
\* allocate, write or read call it makes on the context fails; a failed
\* allocation is followed by no write, and no wire value is returned after a
\* failed write.
ContextFailureSurfaces ==
    last.op # "none" =>
        \A i \in 1..Len(last.log) :
            FailedAt(last.log, i) =>
                /\ last.res.kind = "Err"
                /\ i = Len(last.log)
                /\ mem = last.memPre
                /\ last.log[i].call = "allocate" =>
                      \A j \in 1..Len(last.log) : last.log[j].call # "write"

\* An allocation succeeded and the write into the new block failed.
ContextFailureSurfacesWitness ==
    /\ last.op \in {"vec_into", "array_into"}
    /\ Len(last.log) >= 2
    /\ last.log[Len(last.log) - 1].call = "allocate"
    /\ last.log[Len(last.log) - 1].ok
    /\ FailedAt(last.log, Len(last.log))
    /\ last.res.kind = "Err"

\* C6: every guest memory block the marshaling layer allocates during a call
\* is freed or discarded by the time that call completes.  A conversion that
\* returns an error ends the call, so when it returns no block it allocated
\* may remain allocated.
AllocatedBlocksFreed ==
    (last.op # "none" /\ last.res.kind = "Err") => NewBlocks = {}

\* C8: for a sequence of 16-bit integers, host-side into_ffi_value encodes
\* the sequence with the codec, allocates and writes exactly the encoded
\* bytes and returns a handle whose length field is the encoded byte length;
\* from_ffi_value on that handle decodes with the codec and returns a
\* sequence equal to the original, the empty sequence included.
CodecFallback ==
    /\ (IsVec("u16") /\ last.op = "vec_into") =>
          /\ Len(last.log) >= 1 /\ last.log[1] = EncodeEntry
          /\ (Len(last.log) = 3 /\ AllOk(last.log)) <=> last.res.kind = "Ok"
          /\ last.res.kind = "Ok" =>
                \E A \in Addr :
                    /\ last.log = <<EncodeEntry, AllocEntry(A, Len(Encode(last.self))),
                                    WriteEntry(A, Encode(last.self))>>
                    /\ NewBlocks = {[addr |-> A, len |-> Len(Encode(last.self))]}
                    /\ MemSlice(mem, A, Len(Encode(last.self))) = Encode(last.self)
                    /\ DestOf(last.res.val) = [ptr |-> A, len |-> 1 + 2 * Len(last.self)]
    /\ (IsVec("u16") /\ ReadsBack("vec_into", "vec_from")) =>
          /\ last.log[1].call = "read"
          /\ last.log[1].ok <=> last.res.kind = "Ok"
          /\ last.res.kind # "Panic"
          /\ last.res.kind = "Ok" =>
                /\ last.log = <<ReadEntry(prev.log[2].addr, Encode(prev.self)), DecodeEntry>>
                /\ last.res.val = prev.self

\* Two 16-bit integers went through the codec into guest memory and back.
CodecFallbackWitness ==
    /\ IsVec("u16")
    /\ ReadsBack("vec_into", "vec_from")
    /\ prev.self = <<258, 515>>
    /\ last.res.kind = "Ok"
    /\ last.res.val = <<258, 515>>
    /\ Len(last.log) = 2

\* The empty sequence of 16-bit integers made the same round trip.
CodecFallbackEmptyReached ==
    /\ IsVec("u16")
    /\ ReadsBack("vec_into", "vec_from")
    /\ prev.self = <<>>
    /\ last.res.kind = "Ok"
    /\ last.res.val = <<>>

\* C9: for every supported array size N and every N-byte array x, host-side
\* into_ffi_value allocates exactly N bytes, writes x there and returns that
\* address as the 32-bit wire value; from_ffi_value given that address reads
\* exactly N bytes from it and returns an array byte-identical to x.
ArrayRoundTrip ==
    /\ ty.kind = "array" => ty.n \in 1..64
    /\ last.op = "array_into" =>
          /\ (Len(last.log) = 2 /\ AllOk(last.log)) <=> last.res.kind = "Ok"
          /\ last.res.kind = "Ok" =>
                \E A \in Addr :
                    /\ last.log = <<AllocEntry(A, ty.n), WriteEntry(A, last.self)>>
                    /\ NewBlocks = {[addr |-> A, len |-> ty.n]}
                    /\ MemSlice(mem, A, ty.n) = last.self
                    /\ last.res.val = U32(A)
    /\ ReadsBack("array_into", "array_from") =>
          /\ Len(last.log) = 1
          /\ last.log[1].call = "read"
          /\ last.log[1].addr = prev.log[1].addr
          /\ last.log[1].len = ty.n
          /\ last.log[1].ok <=> last.res.kind = "Ok"
          /\ last.res.kind = "Ok" => last.res.val = prev.self /\ Len(last.res.val) = ty.n

\* A 32-byte array filled with the pattern 1, 2, ..., 32 came back identical.
ArrayRoundTripWitness ==
    /\ ty.kind = "array"
    /\ ty.n = 32
    /\ ReadsBack("array_into", "array_from")
    /\ prev.self = [i \in 1..32 |-> i]
    /\ last.res.kind = "Ok"
    /\ last.res.val = prev.self

\* The largest supported array, 64 bytes, made the round trip.
ArrayRoundTripMaxReached ==
    /\ ty.kind = "array"
    /\ ty.n = 64
    /\ ReadsBack("array_into", "array_from")
    /\ last.res.kind = "Ok"

\* C10: when host-side from_ffi_value for a sequence whose elements are not
\* single bytes has read bytes the codec cannot decode, the conversion
\* panics: it returns neither an error value nor a sequence; a sequence it
\* does return is the whole decoded one.
UndecodableAborts ==
    (IsVec("u16") /\ last.op = "vec_from" /\ last.log[1].ok) =>
        /\ ~Decode(last.log[1].data).ok =>
              /\ last.res.kind = "Panic"
              /\ last.log[Len(last.log)].call = "decode"
              /\ ~last.log[Len(last.log)].ok
        /\ Decode(last.log[1].data).ok =>
              /\ last.res.kind = "Ok"
              /\ last.res.val = Decode(last.log[1].data).val
        /\ last.res.kind # "Err"
        /\ mem = last.memPre

\* An encoded one-element sequence was read one byte short and the decode
\* of the three bytes panicked.
UndecodableAbortsWitness ==
    /\ IsVec("u16")
    /\ last.op = "vec_from"
    /\ last.log[1].ok
    /\ Len(last.log[1].data) = 2
    /\ last.log[1].data[1] = 4
    /\ last.res.kind = "Panic"

----------------------------------------------------------------------------
(* Guest side: the sandbox reconstructing a fixed-size array the host put  *)
(* into its memory.  The guest addresses the same linear memory directly.  *)

\* slice::from_raw_parts(arg as *const u8, n), copied out.
from_raw_parts(m, addr, n) == [i \in 1..n |-> m[addr + i - 1]]

\* What the allocator leaves in a block it has taken back.
FreedBytes == {"kept", "overwritten"}

\* Dropping Box::from_raw(arg as *mut u8): the guest's allocator takes back
\* the block that starts at the address, whatever its length; the bytes of a
\* freed block are the allocator's to reuse.
guest_free(m, blks, addr, freed) ==
    LET gone == {b \in blks : b.addr = addr}
    IN  [mem    |-> IF freed = "kept" THEN m
                    ELSE [a \in Addr |->
                            IF \E b \in gone : a >= b.addr /\ a < b.addr + b.len
                            THEN 221 ELSE m[a]],
         blocks |-> blks \ gone,
         log    |-> [call |-> "free", addr |-> addr, len |-> 0, data |-> <<>>,
                     ok |-> gone # {}]]

guest_array_from_ffi_value_free_first(n, arg, ctx, freed) ==
    LET f   == guest_free(ctx.mem, ctx.blocks, U32Value(arg), freed)
        res == from_raw_parts(f.mem, U32Value(arg), n)
    IN  Done(Ok(res),
             <<f.log,
               [call |-> "copy", addr |-> U32Value(arg), len |-> n, data |-> res, ok |-> TRUE]>>,
             f.mem, f.blocks)

\* impl FromFFIValue for [u8; N] (guest)
guest_array_from_ffi_value(n, arg, ctx, freed) ==
    LET res == from_raw_parts(ctx.mem, U32Value(arg), n)
        f   == guest_free(ctx.mem, ctx.blocks, U32Value(arg), freed)
    IN  Done(Ok(res),
             <<[call |-> "copy", addr |-> U32Value(arg), len |-> n, data |-> res, ok |-> TRUE],
               f.log>>,
             f.mem, f.blocks)

\* The host passes a block of N bytes it allocated and gives it up: the
\* guest is handed each such address once.
GuestArrayFromFFIValue ==
    /\ ty.kind = "array"
    /\ \E b \in blocks, freed \in FreedBytes :
          /\ b.len = ty.n
          /\ Complete("guest_array_from", <<>>, U32(b.addr),
                      guest_array_from_ffi_value(ty.n, U32(b.addr), Ctx, freed))

InitGuest ==
    /\ bigEndian \in BOOLEAN
    /\ pc = "guest"
    /\ input = <<>>
    /\ wire = <<>>
    /\ output = <<>>
    /\ mem = [a \in Addr |-> 0]
    /\ blocks = {}
    /\ ty \in {t \in HostTypes : t.kind = "array"}
    /\ calls = 0
    /\ last = NoCall
    /\ prev = NoPrev
    /\ IndicesIdle

NextGuest == ArrayIntoFFIValue \/ GuestArrayFromFFIValue

SpecGuest == InitGuest /\ [][NextGuest]_vars

FreesIn(log) == {i \in 1..Len(log) : log[i].call = "free"}

\* C11: guest-side from_ffi_value for [u8; N] first copies the N bytes at
\* the given address into a new array and only afterwards deallocates the
\* block at that address, exactly once per call; the returned array equals
\* the bytes held at the address before the deallocation, and the block is
\* no longer allocated when the conversion returns.
GuestArrayCopiesThenFrees ==
    last.op = "guest_array_from" =>
        LET A == U32Value(last.arg)
        IN  /\ Len(last.log) = 2
            /\ last.log[1] = [call |-> "copy", addr |-> A, len |-> ty.n,
                              data |-> from_raw_parts(last.memPre, A, ty.n), ok |-> TRUE]
            /\ last.log[2].call = "free" /\ last.log[2].addr = A /\ last.log[2].ok
            /\ FreesIn(last.log) = {2}
            /\ last.res.kind = "Ok"
            /\ last.res.val = from_raw_parts(last.memPre, A, ty.n)
            /\ Len(last.res.val) = ty.n
            /\ \A b \in blocks : b.addr # A
            /\ blocks = last.blocksPre \ {[addr |-> A, len |-> ty.n]}
            /\ [addr |-> A, len |-> ty.n] \in last.blocksPre

\* The guest took over the 32-byte array 1, 2, ..., 32 the host had written:
\* it got the bytes, and the allocator has since reused the freed block.
GuestArrayCopiesThenFreesWitness ==
    /\ ty.kind = "array"
    /\ ty.n = 32
    /\ prev.op = "array_into"
    /\ prev.res.kind = "Ok"
    /\ last.op = "guest_array_from"
    /\ last.arg = prev.res.val
    /\ last.res.val = [i \in 1..32 |-> i]
    /\ mem[U32Value(last.arg)] = 221
    /\ blocks = {}

-----------------------------------------------------------------------------
(* The indices module: account indices kept in enumeration sets            *)

ENUM_SET_SIZE == 64

Some(v) == [some |-> TRUE, val |-> v]
None == [some |-> FALSE, val |-> 0]

\* The storage map EnumSet read with its default: a missing key is an empty Vec.
enum_set(sets, i) == IF i \in DOMAIN sets THEN sets[i] ELSE <<>>

insert(sets, k, v) == [j \in DOMAIN sets \cup {k} |-> IF j = k THEN v ELSE sets[j]]

\* Genesis: NextEnumSet is built from the number of configured ids.
build_next_enum_set(ids) == Len(ids) \div ENUM_SET_SIZE

\* Genesis: the ids are stored in chunks of ENUM_SET_SIZE, one per set.
build_enum_set(ids) ==
    [i \in 0..(((Len(ids) + ENUM_SET_SIZE - 1) \div ENUM_SET_SIZE) - 1) |->
        SubSeq(ids, i * ENUM_SET_SIZE + 1,
               IF Len(ids) < (i + 1) * ENUM_SET_SIZE THEN Len(ids) ELSE (i + 1) * ENUM_SET_SIZE)]

lookup_index(sets, index) ==
    LET set == enum_set(sets, index \div ENUM_SET_SIZE)
        i   == index % ENUM_SET_SIZE
    IN  IF i < Len(set) THEN Some(set[i + 1]) ELSE None

\* T::IsDeadAccount is the balances module's answer; a pattern names which
\* accounts it calls dead at the time of the call.
DeadPatterns == {"odd", "even"}

is_dead_account(dead, who) ==
    \/ dead = "odd" /\ who % 2 = 1
    \/ dead = "even" /\ who % 2 = 0

can_reclaim(sets, try_index, dead) ==
    LET try_set == enum_set(sets, try_index \div ENUM_SET_SIZE)
        i       == try_index % ENUM_SET_SIZE
    IN  i < Len(try_set) /\ is_dead_account(dead, try_set[i + 1])

\* The fallback search: the first set from set_index on that is not full.
RECURSIVE find_set(_, _)
find_set(sets, set_index) ==
    IF Len(enum_set(sets, set_index)) < ENUM_SET_SIZE
    THEN set_index
    ELSE find_set(sets, set_index + 1)

NewAccountIndex(who, index) == [who |-> who, index |-> index]

\* As on_new_account, but an index that is reassigned is announced as well.
on_new_account_event_on_reuse(who, hint, dead, next_set_index, sets) ==
    LET try_index  == hint.val
        try_set    == enum_set(sets, try_index \div ENUM_SET_SIZE)
        item_index == try_index % ENUM_SET_SIZE
        set_index  == find_set(sets, next_set_index)
        set        == enum_set(sets, set_index)
        index      == set_index * ENUM_SET_SIZE + Len(set)
        pushed     == Append(set, who)
    IN  IF hint.some /\ item_index < Len(try_set) /\ is_dead_account(dead, try_set[item_index + 1])
        THEN [next   |-> next_set_index,
              sets   |-> insert(sets, try_index \div ENUM_SET_SIZE, [try_set EXCEPT ![item_index + 1] = who]),
              events |-> <<NewAccountIndex(who, try_index)>>,
              loops  |-> 0]
        ELSE [next   |-> IF Len(pushed) = ENUM_SET_SIZE THEN set_index + 1 ELSE next_set_index,
              sets   |-> insert(sets, set_index, pushed),
              events |-> <<NewAccountIndex(who, index)>>,
              loops  |-> set_index - next_set_index]

\* As on_new_account, but NextEnumSet is left alone when the set fills up.
on_new_account_stale_next(who, hint, dead, next_set_index, sets) ==
    LET try_index  == hint.val
        try_set    == enum_set(sets, try_index \div ENUM_SET_SIZE)
        item_index == try_index % ENUM_SET_SIZE
        set_index  == find_set(sets, next_set_index)
        set        == enum_set(sets, set_index)
        index      == set_index * ENUM_SET_SIZE + Len(set)
        pushed     == Append(set, who)
    IN  IF hint.some /\ item_index < Len(try_set) /\ is_dead_account(dead, try_set[item_index + 1])
        THEN [next   |-> next_set_index,
              sets   |-> insert(sets, try_index \div ENUM_SET_SIZE, [try_set EXCEPT ![item_index + 1] = who]),
              events |-> <<>>,
              loops  |-> 0]
        ELSE [next   |-> next_set_index,
              sets   |-> insert(sets, set_index, pushed),
              events |-> <<NewAccountIndex(who, index)>>,
              loops  |-> set_index - next_set_index]

\* on_new_account: the storage after the call (next, sets), the events it
\* deposits, and how often the fallback loop advanced set_index.
on_new_account(who, hint, dead, next_set_index, sets) ==
    LET try_index  == hint.val
        try_set    == enum_set(sets, try_index \div ENUM_SET_SIZE)
        item_index == try_index % ENUM_SET_SIZE
        set_index  == find_set(sets, next_set_index)
        set        == enum_set(sets, set_index)
        index      == set_index * ENUM_SET_SIZE + Len(set)
        pushed     == Append(set, who)
    IN  IF hint.some /\ item_index < Len(try_set) /\ is_dead_account(dead, try_set[item_index + 1])
        THEN [next   |-> next_set_index,
              sets   |-> insert(sets, try_index \div ENUM_SET_SIZE, [try_set EXCEPT ![item_index + 1] = who]),
              events |-> <<>>,
              loops  |-> 0]
        ELSE [next   |-> IF Len(pushed) = ENUM_SET_SIZE THEN set_index + 1 ELSE next_set_index,
              sets   |-> insert(sets, set_index, pushed),
              events |-> <<NewAccountIndex(who, index)>>,
              loops  |-> set_index - next_set_index]

MaxGenesisSets == 2
MaxNewAccounts == 3

\* Genesis configurations: ids 1..n, for every n up to MaxGenesisSets full sets.
GenesisIds == {[i \in 1..n |-> i] : n \in 0..(MaxGenesisSets * ENUM_SET_SIZE)}

\* Accounts created after genesis are numbered from here on.
FirstNewAccount == (MaxGenesisSets + 1) * ENUM_SET_SIZE + 1

Assigned == LET top == find_set(EnumSet, 0)
            IN  top * ENUM_SET_SIZE + Len(enum_set(EnumSet, top))

\* Hints a ResolveHint may give: none, or an index at the edges of the sets.
Hints ==
    {None} \cup {Some(i) : i \in {0, ENUM_SET_SIZE - 1, ENUM_SET_SIZE, Assigned - 1, Assigned} \cap Nat}

InitIndices ==
    /\ bigEndian = FALSE
    /\ pc = "indices"
    /\ input = <<>>
    /\ wire = <<>>
    /\ output = <<>>
    /\ mem = [a \in Addr |-> 0]
    /\ blocks = {}
    /\ ty = [kind |-> "none", elem |-> "none", n |-> 0]
    /\ calls = 0
    /\ last = NoCall
    /\ prev = NoPrev
    /\ \E ids \in GenesisIds :
          /\ NextEnumSet = build_next_enum_set(ids)
          /\ EnumSet = build_enum_set(ids)
    /\ events = <<>>
    /\ account = NoAccount

OnNewAccount ==
    /\ pc = "indices"
    /\ account.n < MaxNewAccounts
    /\ \E hint \in Hints, dead \in DeadPatterns :
          LET who == FirstNewAccount + account.n
              r   == on_new_account(who, hint, dead, NextEnumSet, EnumSet)
          IN  /\ NextEnumSet' = r.next
              /\ EnumSet' = r.sets
              /\ events' = events \o r.events
              /\ account' = [n |-> account.n + 1, who |-> who, hint |-> hint, dead |-> dead,
                             next |-> NextEnumSet, sets |-> EnumSet, events |-> Len(events),
                             loops |-> r.loops]
    /\ UNCHANGED <<bigEndian, pc, input, wire, output, hostVars>>

NextIndices == OnNewAccount

SpecIndices == InitIndices /\ [][NextIndices]_vars

\* The most recent call appended who to the set s, touching no other set.
AppendedTo(s) ==
    EnumSet = insert(account.sets, s, Append(enum_set(account.sets, s), account.who))

Appended == \E s \in DOMAIN EnumSet : AppendedTo(s)

\* The most recent call overwrote the slot its hint names, whose account was dead.
Reused ==
    /\ account.hint.some
    /\ can_reclaim(account.sets, account.hint.val, account.dead)
    /\ EnumSet = insert(account.sets, account.hint.val \div ENUM_SET_SIZE,
                        [enum_set(account.sets, account.hint.val \div ENUM_SET_SIZE)
                            EXCEPT ![(account.hint.val % ENUM_SET_SIZE) + 1] = account.who])
    /\ lookup_index(EnumSet, account.hint.val) = Some(account.who)

\* C12: on_new_account deposits NewAccountIndex(who, index) exactly when it
\* appends who to an enum set, at a previously unused index; then index is
\* set_index * ENUM_SET_SIZE + position and lookup_index(index) returns who.
\* Otherwise it has overwritten the dead account's slot named by the resolve
\* hint with who and deposited no event.
NewIndexEvent ==
    account.n > 0 =>
        /\ Len(events) \in {account.events, account.events + 1}
        /\ (Len(events) = account.events + 1) <=> Appended
        /\ \A s \in DOMAIN EnumSet :
              AppendedTo(s) =>
                 LET position == Len(enum_set(account.sets, s))
                     index    == s * ENUM_SET_SIZE + position
                 IN  /\ events[Len(events)] = NewAccountIndex(account.who, index)
                     /\ lookup_index(account.sets, index) = None
                     /\ lookup_index(EnumSet, index) = Some(account.who)
        /\ ~Appended => Reused /\ Len(events) = account.events /\ NextEnumSet = account.next

NewIndexEventWitness ==
    /\ account.n = 2
    /\ Len(events) = 1
    /\ events[1] = NewAccountIndex(FirstNewAccount, ENUM_SET_SIZE)
    /\ Reused
    /\ account.hint = Some(ENUM_SET_SIZE)
    /\ EnumSet[1] = <<FirstNewAccount + 1>>

\* C13: in every state reachable from a genesis configuration by
\* on_new_account calls, the enum set at NextEnumSet holds fewer than
\* ENUM_SET_SIZE accounts, and no call's fallback loop advanced past the
\* NextEnumSet it started from.
NextEnumSetNotFull ==
    /\ Len(enum_set(EnumSet, NextEnumSet)) < ENUM_SET_SIZE
    /\ account.n > 0 => /\ account.loops = 0
                        /\ Len(enum_set(account.sets, account.next)) < ENUM_SET_SIZE
                        /\ Appended => AppendedTo(account.next)

NextEnumSetNotFullWitness ==
    /\ account.n > 0
    /\ AppendedTo(account.next)
    /\ Len(EnumSet[account.next]) = ENUM_SET_SIZE
    /\ NextEnumSet = account.next + 1
    /\ account.next = MaxGenesisSets - 1

----------------------------------------------------------------------------
(* Harness of the handle codec: pack one (address, length), then unpack it *)

HandleBytes == {0, 5, 255}

InitHandle ==
    /\ bigEndian \in BOOLEAN
    /\ pc = "start"
    /\ input \in [ptr : [1..4 -> HandleBytes], len : [1..4 -> HandleBytes]]
    /\ wire = <<>>
    /\ output = <<>>
    /\ HostIdle

Pack ==
    /\ pc = "start"
    /\ wire' = pointer_and_len_to_u64(input.ptr, input.len)
    /\ pc' = "packed"
    /\ UNCHANGED <<bigEndian, input, output, hostVars, indicesVars>>

Unpack ==
    /\ pc = "packed"
    /\ output' = pointer_and_len_from_u64(wire)
    /\ pc' = "unpacked"
    /\ UNCHANGED <<bigEndian, input, wire, hostVars, indicesVars>>

NextHandle == Pack \/ Unpack

SpecHandle == InitHandle /\ [][NextHandle]_vars

\* C1: for every address a and length l in [0, 2^32),
\* pointer_and_len_from_u64(pointer_and_len_to_u64(a, l)) is exactly (a, l).
HandleRoundTrip ==
    pc = "unpacked" => output = <<input.ptr, input.len>>

\* A round trip of a pair whose two fields differ in every byte position has
\* completed on a big-endian build.
HandleRoundTripWitness ==
    /\ pc = "unpacked"
    /\ bigEndian
    /\ input.ptr = <<5, 0, 255, 255>>
    /\ input.len = <<255, 0, 5, 0>>
    /\ output = <<input.ptr, input.len>>

\* C2: after little-endian normalisation the handle carries the length in
\* its low 32 bits and the address in its high 32 bits, handle = l | (a << 32):
\* its normalised value, and so its bytes in memory on either endianness, are
\* the four length bytes followed by the four address bytes, and no bit of
\* one field appears in the other.
HandleLayout ==
    pc \in {"packed", "unpacked"} =>
        /\ from_le(wire) = input.len \o input.ptr
        /\ MemoryBytes(wire) = input.len \o input.ptr
        /\ u64_as_u32(from_le(wire)) = input.len
        /\ u64_as_u32(Shr32(from_le(wire))) = input.ptr

\* The handle of a 5-byte buffer at a non-zero address: its low 32 bits are 5.
HandleLayoutWitness ==
    /\ pc = "packed"
    /\ input.len = <<5, 0, 0, 0>>
    /\ input.ptr = <<255, 5, 0, 0>>
    /\ u64_as_u32(from_le(wire)) = <<5, 0, 0, 0>>

----------------------------------------------------------------------------
(* Harness of the primitive conversions: into the wire type and back *)

PrimBytes == {0, 127, 128, 255}

InitPrim ==
    /\ bigEndian \in BOOLEAN
    /\ pc = "start"
    /\ \E t \in PrimTypes : input \in [ty : {t}, v : [1..SizeOf(t) -> PrimBytes]]
    /\ wire = <<>>
    /\ output = <<>>
    /\ HostIdle

PrimInto ==
    /\ pc = "start"
    /\ wire' = prim_into_ffi_value(input.ty, input.v)
    /\ pc' = "wired"
    /\ UNCHANGED <<bigEndian, input, output, hostVars, indicesVars>>

PrimFrom ==
    /\ pc = "wired"
    /\ output' = prim_from_ffi_value(input.ty, wire)
    /\ pc' = "back"
    /\ UNCHANGED <<bigEndian, input, wire, hostVars, indicesVars>>

NextPrim == PrimInto \/ PrimFrom

SpecPrim == InitPrim /\ [][NextPrim]_vars

\* C7: for each of u8..u64 and i8..i64 and every value v of the type,
\* from_ffi_value(into_ffi_value(v)) = v, and the wire type has the width and
\* the signedness of the native type.
PrimRoundTrip ==
    /\ pc = "back" => output = input.v
    /\ pc \in {"wired", "back"} => Len(wire) = SizeOf(input.ty)
    /\ SizeOf(FFIType(input.ty)) = SizeOf(input.ty)
    /\ IsSigned(FFIType(input.ty)) = IsSigned(input.ty)

\* i64::MIN (0x8000000000000000) has made the round trip on a big-endian build.
PrimRoundTripWitness ==
    /\ pc = "back"
    /\ bigEndian
    /\ input.ty = "i64"
    /\ input.v = <<0, 0, 0, 0, 0, 0, 0, 128>>
    /\ output = input.v

====
